---- MODULE Spec2Model ----
(***************************************************************************)
(* Model of the multicall decoding pipeline: MulticallDecoder              *)
(* (parseMulticallData, decodeCall, decodeMulticall), SignatureDecoder     *)
(* (lookupSelector and its cache) and EtherscanClient (getContractAbi and  *)
(* its cache).                                                             *)
(*                                                                         *)
(* Representation.  A JavaScript string is a sequence of one-character     *)
(* strings, so that slice, toLowerCase and startsWith are computed.  A     *)
(* textual function signature is a sequence of tokens (name, "(", types,   *)
(* ",", ")").  ABI data is hex text; one ABI word is WordChars hex digits  *)
(* (the 32-byte word scaled down to one byte, an address to one byte), and *)
(* a dynamic array / bytes value is its length word followed by its        *)
(* content (the head/tail offsets of the real layout are left out).        *)
(* keccak-256 is a lookup table over the signatures of the model.          *)
(***************************************************************************)
EXTENDS Integers, Sequences, FiniteSets, TLC

VARIABLES
  abiCache,   \* EtherscanClient.cache: normalized address -> Abi
  sigCache,   \* SignatureDecoder.cache: normalized selector -> FunctionSignature[]
  last,       \* the operation that completed last: its inputs, what the gateways
              \* returned to it, its outbound requests and its outcome
  session,    \* the decodeMulticall in progress: calls, position, decodedCalls
  nameCache,  \* EtherscanClient.nameCache: normalized address -> contract name
  apiKey,     \* EtherscanClient.apiKey
  minRequestInterval,  \* EtherscanClient.minRequestInterval, milliseconds
  lastRequestTime,     \* EtherscanClient.lastRequestTime
  now,        \* Date.now()
  tasks,      \* the lookups callers have started on the EtherscanClient: where
              \* each one stands and what the last one of each caller returned
  wire        \* the outbound requests of the EtherscanClient: when the last one
              \* left and the smallest distance between two in a row

\* the state of the EtherscanClient beyond its ABI cache
clientVars ==
  <<nameCache, apiKey, minRequestInterval, lastRequestTime, now, tasks, wire>>

vars == <<abiCache, sigCache, last, session, nameCache, apiKey, minRequestInterval,
          lastRequestTime, now, tasks, wire>>

\* Largest batch length of an envelope.
MaxCalls == 2

\* Hex digits of one ABI word in the model (64 in the ABI).
WordChars == 2

Min(a, b) == IF a < b THEN a ELSE b

\* F applied to the value of e, e being evaluated once
With(e, F(_)) == CHOOSE y \in {F(v) : v \in {e}} : TRUE

(***************************************************************************)
(* Strings                                                                 *)
(***************************************************************************)
ToLowerChar(c) ==
  CASE c = "A" -> "a" [] c = "B" -> "b" [] c = "C" -> "c" [] c = "D" -> "d"
    [] c = "E" -> "e" [] c = "F" -> "f" [] c = "X" -> "x" [] OTHER -> c

ToUpperChar(c) ==
  CASE c = "a" -> "A" [] c = "b" -> "B" [] c = "c" -> "C" [] c = "d" -> "D"
    [] c = "e" -> "E" [] c = "f" -> "F" [] OTHER -> c

\* String.prototype.toLowerCase
toLowerCase(s) == [i \in 1..Len(s) |-> ToLowerChar(s[i])]

\* String.prototype.startsWith('0x')
startsWith0x(s) == Len(s) >= 2 /\ s[1] = "0" /\ s[2] = "x"

\* String.prototype.slice(from, to), zero-based, end exclusive, clamped
slice(s, from, to) == SubSeq(s, from + 1, Min(to, Len(s)))

\* String.prototype.slice(from)
sliceFrom(s, from) == SubSeq(s, from + 1, Len(s))

DigitVal(c) ==
  CASE c = "0" -> 0 [] c = "1" -> 1 [] c = "2" -> 2 [] c = "3" -> 3
    [] c = "4" -> 4 [] c = "5" -> 5 [] c = "6" -> 6 [] c = "7" -> 7
    [] c = "8" -> 8 [] c = "9" -> 9 [] c = "a" -> 10 [] c = "b" -> 11
    [] c = "c" -> 12 [] c = "d" -> 13 [] c = "e" -> 14 [] c = "f" -> 15
    [] OTHER -> 0

RECURSIVE HexVal(_)
HexVal(w) ==
  IF w = <<>> THEN 0
  ELSE 16 * HexVal(SubSeq(w, 1, Len(w) - 1)) + DigitVal(ToLowerChar(w[Len(w)]))

\* the JavaScript value undefined, where a list of arguments is expected
Undefined == << <<"undefined">> >>

(***************************************************************************)
(* ABI values (viem decodeAbiParameters)                                   *)
(***************************************************************************)
Calls3Type == "(address,bool,bytes)[]"
Calls2Type == "(address,bytes)[]"
KnownTypes == {"uint256", "address", "bool", "bytes", Calls3Type, Calls2Type}

\* viem checksumAddress: one canonical letter case per address (keccak picks
\* the case of each letter in viem; the table here raises every letter)
checksumAddress(a) ==
  <<"0", "x">> \o [i \in 1..(Len(a) - 2) |-> ToUpperChar(ToLowerChar(a[i + 2]))]

DecodeFail == [ok |-> FALSE, value |-> <<>>, pos |-> 0]

HasWord(data, pos) == pos + WordChars - 1 <= Len(data)
WordAt(data, pos) == SubSeq(data, pos, pos + WordChars - 1)

\* a static value at pos: uint256 -> bigint (its digits), address -> checksummed
\* address, bool -> true / false, any other word rejected
decodeStatic(type, data, pos) ==
  IF ~HasWord(data, pos) THEN DecodeFail
  ELSE With(WordAt(data, pos), LAMBDA w :
    CASE type = "uint256" ->
           [ok |-> TRUE, value |-> toLowerCase(w), pos |-> pos + WordChars]
      [] type = "address" ->
           [ok |-> TRUE, value |-> checksumAddress(<<"0", "x">> \o w),
            pos |-> pos + WordChars]
      [] type = "bool" ->
           With(HexVal(w), LAMBDA n :
             IF n = 0
               THEN [ok |-> TRUE, value |-> <<"false">>, pos |-> pos + WordChars]
             ELSE IF n = 1
               THEN [ok |-> TRUE, value |-> <<"true">>, pos |-> pos + WordChars]
             ELSE DecodeFail)
      [] OTHER -> DecodeFail)

\* a bytes value at pos: its length in bytes, then two hex digits per byte
decodeBytes(data, pos) ==
  IF ~HasWord(data, pos) THEN DecodeFail
  ELSE With(HexVal(WordAt(data, pos)), LAMBDA n :
         LET from == pos + WordChars
         IN IF from + 2 * n - 1 > Len(data) THEN DecodeFail
            ELSE [ok |-> TRUE,
                  value |-> <<"0", "x">>
                              \o toLowerCase(SubSeq(data, from, from + 2 * n - 1)),
                  pos |-> from + 2 * n])

\* n tuples (address target, [bool allowFailure,] bytes callData) from pos
RECURSIVE decodeTuples(_, _, _, _)
decodeTuples(withFlag, data, pos, n) ==
  IF n = 0 THEN [ok |-> TRUE, value |-> <<>>, pos |-> pos]
  ELSE
    With(decodeStatic("address", data, pos), LAMBDA a :
      IF ~a.ok THEN DecodeFail
      ELSE
    With(IF withFlag THEN decodeStatic("bool", data, a.pos)
         ELSE [ok |-> TRUE, value |-> <<>>, pos |-> a.pos], LAMBDA f :
      IF ~f.ok THEN DecodeFail
      ELSE
    With(decodeBytes(data, f.pos), LAMBDA b :
      IF ~b.ok THEN DecodeFail
      ELSE
    With(decodeTuples(withFlag, data, b.pos, n - 1), LAMBDA rest :
      IF ~rest.ok THEN DecodeFail
      ELSE
        LET call == IF withFlag
                    THEN [target |-> a.value, allowFailure |-> f.value,
                          callData |-> b.value]
                    ELSE [target |-> a.value, callData |-> b.value]
        IN [ok |-> TRUE, value |-> <<call>> \o rest.value, pos |-> rest.pos]))))

decodeParameter(type, data, pos) ==
  IF type \in {Calls3Type, Calls2Type} THEN
    IF ~HasWord(data, pos) THEN DecodeFail
    ELSE decodeTuples(type = Calls3Type, data, pos + WordChars, HexVal(WordAt(data, pos)))
  ELSE IF type = "bytes" THEN decodeBytes(data, pos)
  ELSE decodeStatic(type, data, pos)

RECURSIVE decodeParams(_, _, _)
decodeParams(params, data, pos) ==
  IF params = <<>> THEN [ok |-> TRUE, value |-> <<>>, pos |-> pos]
  ELSE
    With(decodeParameter(Head(params), data, pos), LAMBDA v :
      IF ~v.ok THEN DecodeFail
      ELSE
    With(decodeParams(Tail(params), data, v.pos), LAMBDA rest :
      IF ~rest.ok THEN DecodeFail
      ELSE [ok |-> TRUE, value |-> <<v.value>> \o rest.value, pos |-> rest.pos]))

\* decodeAbiParameters(params, data): data is the hex text after the selector;
\* data left over after the last parameter is accepted
decodeAbiParameters(params, data) ==
  With(decodeParams(params, data, 1), LAMBDA r : [ok |-> r.ok, values |-> r.value])

(***************************************************************************)
(* Signatures and selectors                                                *)
(***************************************************************************)
RECURSIVE JoinTypes(_)
JoinTypes(types) ==
  IF types = <<>> THEN <<>>
  ELSE IF Len(types) = 1 THEN <<types[1]>>
  ELSE <<types[1], ",">> \o JoinTypes(Tail(types))

\* `${name}(${inputTypes.join(',')})`
formatSignature(name, types) == name \o <<"(">> \o JoinTypes(types) \o <<")">>

TransferSig == <<"transfer", "(", "address", ",", "uint256", ")">>
JoinTgSig == <<"join_tg_invmru_haha_fd06787", "(", "address", ",", "bool", ")">>
WorkMySig == <<"workMyDirefulOwner", "(", "uint256", ",", "uint256", ")">>
BalanceOf1Sig == <<"balanceOf", "(", "address", ")">>
BalanceOf2Sig == <<"balanceOf", "(", "address", ",", "uint256", ")">>
PauseSig == <<"pause", "(", ")">>
\* a directory entry that is no function signature
BadSig == <<"transfer", "(", "address", ",", ")">>

SelTransfer == <<"0", "x", "a", "9", "0", "5", "9", "c", "b", "b">>
SelBalanceOf1 == <<"0", "x", "7", "0", "a", "0", "8", "2", "3", "1">>
SelBalanceOf2 == <<"0", "x", "0", "0", "f", "d", "d", "5", "8", "e">>
SelPause == <<"0", "x", "8", "4", "5", "6", "c", "b", "5", "9">>
SelAggregate3 == <<"0", "x", "8", "2", "a", "d", "5", "6", "c", "b">>
SelAggregate == <<"0", "x", "2", "5", "2", "d", "b", "a", "4", "2">>
SelTryAggregate == <<"0", "x", "b", "c", "e", "3", "8", "b", "d", "7">>
SelTryBlock == <<"0", "x", "3", "9", "9", "5", "4", "2", "e", "9">>
SelOther == <<"0", "x", "f", "f", "f", "f", "f", "f", "f", "f">>
SelDeadBeef == <<"0", "x", "d", "e", "a", "d", "b", "e", "e", "f">>

\* toFunctionSelector: the first four bytes of keccak-256 of the signature,
\* as a table (transfer, join_tg_... and workMyDirefulOwner collide)
toFunctionSelector(sig) ==
  CASE sig = TransferSig -> SelTransfer
    [] sig = JoinTgSig -> SelTransfer
    [] sig = WorkMySig -> SelTransfer
    [] sig = BalanceOf1Sig -> SelBalanceOf1
    [] sig = BalanceOf2Sig -> SelBalanceOf2
    [] sig = PauseSig -> SelPause
    [] sig = <<"aggregate3", "(", Calls3Type, ")">> -> SelAggregate3
    [] sig = <<"aggregate", "(", Calls2Type, ")">> -> SelAggregate
    [] sig = <<"tryAggregate", "(", "bool", ",", Calls2Type, ")">> -> SelTryAggregate
    [] sig = <<"tryBlockAndAggregate", "(", "bool", ",", Calls2Type, ")">> -> SelTryBlock
    [] OTHER -> SelOther

AbiFunction(name, inputs) == [type |-> "function", name |-> <<name>>, inputs |-> inputs]

\* the types between the parentheses of a signature: type ("," type)*
RECURSIVE parseTypes(_)
parseTypes(toks) ==
  IF toks = <<>> THEN [ok |-> FALSE, types |-> <<>>]
  ELSE IF Head(toks) \notin KnownTypes THEN [ok |-> FALSE, types |-> <<>>]
  ELSE IF Len(toks) = 1 THEN [ok |-> TRUE, types |-> <<toks[1]>>]
  ELSE IF toks[2] # "," THEN [ok |-> FALSE, types |-> <<>>]
  ELSE LET rest == parseTypes(SubSeq(toks, 3, Len(toks)))
       IN IF rest.ok THEN [ok |-> TRUE, types |-> <<toks[1]>> \o rest.types]
          ELSE [ok |-> FALSE, types |-> <<>>]

\* parseAbiItem(`function ${signature}`): throws unless name "(" types ")"
parseAbiItem(sig) ==
  IF Len(sig) < 3 \/ sig[1] \in {"(", ")", ","} \/ sig[2] # "(" \/ sig[Len(sig)] # ")"
    THEN [ok |-> FALSE, item |-> AbiFunction("", <<>>)]
  ELSE IF Len(sig) = 3 THEN [ok |-> TRUE, item |-> AbiFunction(sig[1], <<>>)]
  ELSE LET p == parseTypes(SubSeq(sig, 3, Len(sig) - 1))
       IN [ok |-> p.ok, item |-> AbiFunction(sig[1], p.types)]

(***************************************************************************)
(* viem decodeFunctionData                                                 *)
(***************************************************************************)
\* JavaScript values an ABI lookup can hold: an array of items, another
\* object ({}), or null
ArrayAbi(items) == [kind |-> "array", items |-> items]
ObjectAbi == [kind |-> "object", items |-> <<>>]
NullAbi == [kind |-> "null", items |-> <<>>]

\* hasArgs is FALSE where viem leaves args undefined
Thrown == [ok |-> FALSE, functionName |-> <<>>, args |-> <<>>, hasArgs |-> FALSE]

\* abi.find(x => x.type === 'function' && selector === toFunctionSelector(x)):
\* the index of the first such item, 0 when there is none
FindBySelector(items, selector) ==
  LET hits == {i \in 1..Len(items) :
                 /\ items[i].type = "function"
                 /\ toFunctionSelector(formatSignature(items[i].name, items[i].inputs)) = selector}
  IN IF hits = {} THEN 0 ELSE CHOOSE i \in hits : \A j \in hits : i <= j

decodeFunctionData(abi, data) ==
  IF abi.kind # "array" \/ ~startsWith0x(data) THEN Thrown
  ELSE
    With(FindBySelector(abi.items, slice(data, 0, 10)), LAMBDA i :
      IF i = 0 THEN Thrown
      ELSE IF Len(abi.items[i].inputs) > 0
        THEN With(decodeAbiParameters(abi.items[i].inputs, sliceFrom(data, 10)),
                  LAMBDA p :
               IF p.ok
                 THEN [ok |-> TRUE, functionName |-> abi.items[i].name,
                       args |-> p.values, hasArgs |-> TRUE]
               ELSE Thrown)
      ELSE [ok |-> TRUE, functionName |-> abi.items[i].name, args |-> <<>>,
            hasArgs |-> FALSE])

(***************************************************************************)
(* MulticallDecoder.parseMulticallData                                     *)
(***************************************************************************)
multicall3Abi == ArrayAbi(<<AbiFunction("aggregate3", <<Calls3Type>>)>>)
multicall2Abi == ArrayAbi(<<AbiFunction("aggregate", <<Calls2Type>>)>>)
tryAggregateAbi == ArrayAbi(<<AbiFunction("tryAggregate", <<"bool", Calls2Type>>)>>)
tryBlockAbi == ArrayAbi(<<AbiFunction("tryBlockAndAggregate", <<"bool", Calls2Type>>)>>)

\* faulty variant of PushCalls: calls.unshift(...), the calls come out reversed
PushCallsReversed(arr) ==
  [i \in 1..Len(arr) |->
     [target |-> arr[Len(arr) + 1 - i].target, callData |-> arr[Len(arr) + 1 - i].callData]]

\* calls.push({target: call.target, callData: call.callData}) for each call
PushCalls(arr) ==
  [i \in 1..Len(arr) |-> [target |-> arr[i].target, callData |-> arr[i].callData]]

\* one probe: decode against the shape's ABI and take args[argIndex]; a decode
\* that throws is caught and the probe does not match
Probe(abi, name, argIndex, data) ==
  With(decodeFunctionData(abi, data), LAMBDA decoded :
    IF decoded.ok /\ decoded.functionName = <<name>> /\ decoded.hasArgs
      THEN [matched |-> TRUE, calls |-> PushCalls(decoded.args[argIndex])]
    ELSE [matched |-> FALSE, calls |-> <<>>])

ProbeAggregate3(data) == Probe(multicall3Abi, "aggregate3", 1, data)
ProbeAggregate(data) == Probe(multicall2Abi, "aggregate", 1, data)
ProbeTryAggregate(data) == Probe(tryAggregateAbi, "tryAggregate", 2, data)
ProbeTryBlock(data) == Probe(tryBlockAbi, "tryBlockAndAggregate", 2, data)

\* faulty variant of parseMulticallData: with every shape exhausted it returns
\* the empty calls instead of throwing
parseMulticallDataNoThrow(data) ==
  With(ProbeAggregate3(data), LAMBDA p3 :
    IF p3.matched THEN [threw |-> FALSE, calls |-> p3.calls]
    ELSE
  With(ProbeAggregate(data), LAMBDA p2 :
    IF p2.matched THEN [threw |-> FALSE, calls |-> p2.calls]
    ELSE
  With(ProbeTryAggregate(data), LAMBDA pt :
    IF pt.matched THEN [threw |-> FALSE, calls |-> pt.calls]
    ELSE
  With(ProbeTryBlock(data), LAMBDA pb :
    IF pb.matched THEN [threw |-> FALSE, calls |-> pb.calls]
    ELSE [threw |-> FALSE, calls |-> <<>>]))))

\* threw: Error('Unable to parse multicall data - unknown format'), rethrown
\* by the outer catch
parseMulticallData(data) ==
  With(ProbeAggregate3(data), LAMBDA p3 :
    IF p3.matched THEN [threw |-> FALSE, calls |-> p3.calls]
    ELSE
  With(ProbeAggregate(data), LAMBDA p2 :
    IF p2.matched THEN [threw |-> FALSE, calls |-> p2.calls]
    ELSE
  With(ProbeTryAggregate(data), LAMBDA pt :
    IF pt.matched THEN [threw |-> FALSE, calls |-> pt.calls]
    ELSE
  With(ProbeTryBlock(data), LAMBDA pb :
    IF pb.matched THEN [threw |-> FALSE, calls |-> pb.calls]
    ELSE [threw |-> TRUE, calls |-> <<>>]))))

(***************************************************************************)
(* EtherscanClient.getContractAbi                                          *)
(***************************************************************************)
EmptyMap == [k \in {} |-> NullAbi]

\* a response of axios.get: failed (timeout, non-2xx), or data {status, result}
\* with result a text: empty, not JSON, or the JSON of a value
RegistryError == [failed |-> TRUE, status |-> "0", json |-> "none", value |-> NullAbi]
RegistryNotVerified == [failed |-> FALSE, status |-> "0", json |-> "text", value |-> NullAbi]
RegistryGarbled == [failed |-> FALSE, status |-> "1", json |-> "text", value |-> NullAbi]
RegistryOk(v) == [failed |-> FALSE, status |-> "1", json |-> "json", value |-> v]

\* JSON.parse(response.data.result)
JSONparse(response) ==
  IF response.json = "json" THEN [ok |-> TRUE, value |-> response.value]
  ELSE [ok |-> FALSE, value |-> NullAbi]

\* the verified interfaces of the registry, by address
AddrA == <<"0", "x", "a", "1">>
AddrB == <<"0", "x", "b", "2">>
\* AddrA is verified: a token with an event, a function without inputs and
\* two functions named balanceOf; AddrB is not verified
TokenAbi ==
  ArrayAbi(<<[type |-> "event", name |-> <<"Transfer">>,
              inputs |-> <<"address", "address", "uint256">>],
             AbiFunction("transfer", <<"address", "uint256">>),
             AbiFunction("pause", <<>>),
             AbiFunction("balanceOf", <<"address">>),
             AbiFunction("balanceOf", <<"address", "uint256">>)>>)
Registry(address) ==
  CASE address = AddrA -> TokenAbi [] OTHER -> NullAbi

RegistryKinds == {"ok", "notverified", "error", "garbled", "object"}

\* what axios.get(baseUrl, {params: {address}}) resolves to, for each kind of answer
RegistryResponse(kind, address) ==
  CASE kind = "error" -> RegistryError
    [] kind = "garbled" -> RegistryGarbled
    [] kind = "object" -> RegistryOk(ObjectAbi)
    [] kind = "ok" /\ Registry(address).kind # "null" -> RegistryOk(Registry(address))
    [] OTHER -> RegistryNotVerified

\* faulty variant of getContractAbi: without the try / catch, a failed request
\* or a result that is no JSON rejects the promise
getContractAbiUncaught(cache, address, kind) ==
  LET normalizedAddress == toLowerCase(address)
      response == RegistryResponse(kind, normalizedAddress)
      parsed == JSONparse(response)
  IN IF normalizedAddress \in DOMAIN cache
       THEN [ret |-> cache[normalizedAddress], cache |-> cache,
             requested |-> FALSE, threw |-> FALSE]
     ELSE IF response.failed
       THEN [ret |-> NullAbi, cache |-> cache, requested |-> TRUE, threw |-> TRUE]
     ELSE IF response.status = "1" /\ response.json # "none"
       THEN IF parsed.ok
              THEN [ret |-> parsed.value,
                    cache |-> (normalizedAddress :> parsed.value) @@ cache,
                    requested |-> TRUE, threw |-> FALSE]
            ELSE [ret |-> NullAbi, cache |-> cache, requested |-> TRUE, threw |-> TRUE]
     ELSE [ret |-> NullAbi, cache |-> cache, requested |-> TRUE, threw |-> FALSE]

\* faulty variant of getContractAbi: the cache is written and never read
getContractAbiNoCacheRead(cache, address, kind) ==
  LET normalizedAddress == toLowerCase(address)
      response == RegistryResponse(kind, normalizedAddress)
      parsed == JSONparse(response)
  IN IF response.failed
       THEN [ret |-> NullAbi, cache |-> cache, requested |-> TRUE, threw |-> FALSE]
     ELSE IF response.status = "1" /\ response.json # "none" /\ parsed.ok
       THEN [ret |-> parsed.value,
             cache |-> (normalizedAddress :> parsed.value) @@ cache,
             requested |-> TRUE, threw |-> FALSE]
     ELSE [ret |-> NullAbi, cache |-> cache, requested |-> TRUE, threw |-> FALSE]

getContractAbi(cache, address, kind) ==
  LET normalizedAddress == toLowerCase(address)
      response == RegistryResponse(kind, normalizedAddress)
      parsed == JSONparse(response)
  IN IF normalizedAddress \in DOMAIN cache
       THEN [ret |-> cache[normalizedAddress], cache |-> cache,
             requested |-> FALSE, threw |-> FALSE]
     ELSE IF response.failed
       THEN [ret |-> NullAbi, cache |-> cache, requested |-> TRUE, threw |-> FALSE]
     ELSE IF response.status = "1" /\ response.json # "none"
       THEN IF parsed.ok
              THEN [ret |-> parsed.value,
                    cache |-> (normalizedAddress :> parsed.value) @@ cache,
                    requested |-> TRUE, threw |-> FALSE]
            ELSE [ret |-> NullAbi, cache |-> cache, requested |-> TRUE, threw |-> FALSE]
     ELSE [ret |-> NullAbi, cache |-> cache, requested |-> TRUE, threw |-> FALSE]

(***************************************************************************)
(* SignatureDecoder.lookupSelector                                         *)
(***************************************************************************)
\* a response of axios.get: failed, or data with or without a results list;
\* an entry of results has a text_signature, or (isText FALSE) none that is a
\* string
DirectoryError == [failed |-> TRUE, hasResults |-> FALSE, results |-> <<>>]
DirectoryNoResults == [failed |-> FALSE, hasResults |-> FALSE, results |-> <<>>]
DirectoryOk(texts) ==
  [failed |-> FALSE, hasResults |-> TRUE,
   results |-> [i \in 1..Len(texts) |-> [isText |-> TRUE, text_signature |-> texts[i]]]]
DirectoryMalformed ==
  [failed |-> FALSE, hasResults |-> TRUE,
   results |-> <<[isText |-> FALSE, text_signature |-> <<>>]>>]

\* text.split('(')[0]
splitName(text) ==
  LET at == {i \in 1..Len(text) : text[i] = "("}
  IN IF at = {} THEN text
     ELSE SubSeq(text, 1, (CHOOSE i \in at : \A j \in at : i <= j) - 1)

\* faulty variant of normalizeSelector: the prefix is added, the case is kept
normalizeSelectorKeepCase(selector) ==
  IF startsWith0x(selector) THEN selector ELSE <<"0", "x">> \o selector

normalizeSelector(selector) ==
  IF startsWith0x(toLowerCase(selector)) THEN toLowerCase(selector)
  ELSE <<"0", "x">> \o toLowerCase(selector)

\* results.map(result => ({name, signature}))
mapResults(results) ==
  [i \in 1..Len(results) |->
     [name |-> splitName(results[i].text_signature),
      signature |-> results[i].text_signature]]

\* the signatures the directory lists, by hex_signature
Directory(hex_signature) ==
  CASE hex_signature = SelTransfer -> <<JoinTgSig, BadSig, TransferSig, WorkMySig>>
    [] hex_signature = SelBalanceOf2 -> <<BalanceOf2Sig>>
    [] hex_signature = SelPause -> <<PauseSig>>
    [] OTHER -> <<>>

DirectoryKinds == {"ok", "error", "noresults", "malformed"}

\* what axios.get(FOUR_BYTE_API, {params: {hex_signature}}) resolves to
DirectoryResponse(kind, hex_signature) ==
  CASE kind = "error" -> DirectoryError
    [] kind = "noresults" -> DirectoryNoResults
    [] kind = "malformed" -> DirectoryMalformed
    [] OTHER -> DirectoryOk(Directory(hex_signature))

\* faulty variant of lookupSelector: without the try / catch, a failed request
\* or an entry without text rejects the promise
lookupSelectorUncaught(cache, selector, kind) ==
  LET normalizedSelector == normalizeSelector(selector)
      response == DirectoryResponse(kind, normalizedSelector)
  IN IF normalizedSelector \in DOMAIN cache
       THEN [ret |-> cache[normalizedSelector], cache |-> cache, requested |-> FALSE,
             threw |-> FALSE]
     ELSE IF response.failed
       THEN [ret |-> <<>>, cache |-> cache, requested |-> TRUE, threw |-> TRUE]
     ELSE IF response.hasResults
       THEN IF \E i \in 1..Len(response.results) : ~response.results[i].isText
              THEN [ret |-> <<>>, cache |-> cache, requested |-> TRUE, threw |-> TRUE]
            ELSE [ret |-> mapResults(response.results),
                  cache |-> (normalizedSelector :> mapResults(response.results)) @@ cache,
                  requested |-> TRUE, threw |-> FALSE]
     ELSE [ret |-> <<>>, cache |-> cache, requested |-> TRUE, threw |-> FALSE]

lookupSelector(cache, selector, kind) ==
  LET normalizedSelector == normalizeSelector(selector)
      response == DirectoryResponse(kind, normalizedSelector)
  IN IF normalizedSelector \in DOMAIN cache
       THEN [ret |-> cache[normalizedSelector], cache |-> cache, requested |-> FALSE,
             threw |-> FALSE]
     ELSE IF response.failed
       THEN [ret |-> <<>>, cache |-> cache, requested |-> TRUE, threw |-> FALSE]
     ELSE IF response.hasResults
       THEN IF \E i \in 1..Len(response.results) : ~response.results[i].isText
              THEN [ret |-> <<>>, cache |-> cache, requested |-> TRUE, threw |-> FALSE]
            ELSE [ret |-> mapResults(response.results),
                  cache |-> (normalizedSelector :> mapResults(response.results)) @@ cache,
                  requested |-> TRUE, threw |-> FALSE]
     ELSE [ret |-> <<>>, cache |-> cache, requested |-> TRUE, threw |-> FALSE]

(***************************************************************************)
(* MulticallDecoder.decodeCall                                             *)
(***************************************************************************)
DecodedCall(target, name, signature, args, raw) ==
  [target |-> target, functionName |-> name, functionSignature |-> signature,
   args |-> args, rawCallData |-> raw]

NoCall == DecodedCall(<<>>, <<>>, <<>>, <<>>, <<>>)

\* abi.find(item => item.type === 'function' && item.name === name): the
\* index of the first such item, 0 when there is none
findFragment(items, name) ==
  LET hits == {i \in 1..Len(items) : items[i].type = "function" /\ items[i].name = name}
  IN IF hits = {} THEN 0 ELSE CHOOSE i \in hits : \A j \in hits : i <= j

\* the signature of the registry step: the name and the input types of
\* functionFragment, the name alone without a fragment
fragmentSignature(abi, name) ==
  IF findFragment(abi.items, name) = 0 THEN name
  ELSE formatSignature(name, abi.items[findFragment(abi.items, name)].inputs)

\* if (abi) { try { ... return {...} } catch { fall through } }
registryStep(abi, target, callData) ==
  IF abi.kind = "null" THEN [returned |-> FALSE, call |-> NoCall]
  ELSE With(decodeFunctionData(abi, callData), LAMBDA decoded :
         IF ~decoded.ok THEN [returned |-> FALSE, call |-> NoCall]
         ELSE [returned |-> TRUE,
               call |-> DecodedCall(target, decoded.functionName,
                                    fragmentSignature(abi, decoded.functionName),
                                    IF decoded.hasArgs THEN decoded.args ELSE Undefined,
                                    callData)])

\* parseAbiItem(`function ${sig.signature}`), then decodeFunctionData against it
tryDecode(sig, callData) ==
  LET abiItem == parseAbiItem(sig.signature)
  IN IF ~abiItem.ok THEN Thrown
     ELSE decodeFunctionData(ArrayAbi(<<abiItem.item>>), callData)

\* faulty variant of trySignatures: the candidate is returned without a trial
\* decode
trySignaturesUnvalidated(signatures, callData, i) ==
  IF i > Len(signatures) THEN [found |-> FALSE, sig |-> [name |-> <<>>, signature |-> <<>>],
                               args |-> <<>>]
  ELSE [found |-> TRUE, sig |-> signatures[i], args |-> <<>>]

\* for (const sig of signatures) { try { ... return } catch { continue } }
\* from the i-th signature on
RECURSIVE trySignatures(_, _, _)
trySignatures(signatures, callData, i) ==
  IF i > Len(signatures) THEN [found |-> FALSE, sig |-> [name |-> <<>>, signature |-> <<>>],
                               args |-> <<>>]
  ELSE With(tryDecode(signatures[i], callData), LAMBDA decoded :
         IF decoded.ok
           THEN [found |-> TRUE, sig |-> signatures[i],
                 args |-> IF decoded.hasArgs THEN decoded.args ELSE <<>>]
         ELSE trySignatures(signatures, callData, i + 1))

\* faulty variant of directoryStep: an unknown function gets no argument
directoryStepNoRawData(signatures, target, callData, selector) ==
  IF Len(signatures) = 0
    THEN DecodedCall(target, <<"unknown">>, selector, <<>>, callData)
  ELSE With(trySignatures(signatures, callData, 1), LAMBDA t :
         IF t.found
           THEN DecodedCall(target, t.sig.name, t.sig.signature, t.args, callData)
         ELSE DecodedCall(target, signatures[1].name, signatures[1].signature,
                          <<sliceFrom(callData, 10)>>, callData))

\* faulty variant of directoryStep: with no candidate decoding, the last one
\* received is returned
directoryStepLastCandidate(signatures, target, callData, selector) ==
  IF Len(signatures) = 0
    THEN DecodedCall(target, <<"unknown">>, selector, <<sliceFrom(callData, 10)>>,
                     callData)
  ELSE With(trySignatures(signatures, callData, 1), LAMBDA t :
         IF t.found
           THEN DecodedCall(target, t.sig.name, t.sig.signature, t.args, callData)
         ELSE DecodedCall(target, signatures[Len(signatures)].name,
                          signatures[Len(signatures)].signature,
                          <<sliceFrom(callData, 10)>>, callData))

\* faulty variant of directoryStep: with no candidate decoding, the guess is
\* returned without an argument
directoryStepEmptyGuess(signatures, target, callData, selector) ==
  IF Len(signatures) = 0
    THEN DecodedCall(target, <<"unknown">>, selector, <<sliceFrom(callData, 10)>>,
                     callData)
  ELSE With(trySignatures(signatures, callData, 1), LAMBDA t :
         IF t.found
           THEN DecodedCall(target, t.sig.name, t.sig.signature, t.args, callData)
         ELSE DecodedCall(target, signatures[1].name, signatures[1].signature,
                          <<>>, callData))

\* the 4byte fallback once lookupSelector has returned signatures
directoryStep(signatures, target, callData, selector) ==
  IF Len(signatures) = 0
    THEN DecodedCall(target, <<"unknown">>, selector, <<sliceFrom(callData, 10)>>,
                     callData)
  ELSE With(trySignatures(signatures, callData, 1), LAMBDA t :
         IF t.found
           THEN DecodedCall(target, t.sig.name, t.sig.signature, t.args, callData)
         ELSE DecodedCall(target, signatures[1].name, signatures[1].signature,
                          <<sliceFrom(callData, 10)>>, callData))

\* threw: the promise rejects.  abi and sigs are what the gateways returned,
\* abiRequested and sigRequested whether they sent an outbound request.
decodeCall(abiC, sigC, target, callData, regKind, dirKind) ==
  LET selector == slice(callData, 0, 10) IN
  With(getContractAbi(abiC, target, regKind), LAMBDA g :
    IF g.threw
      THEN [threw |-> TRUE, call |-> NoCall, abiCache |-> g.cache, sigCache |-> sigC,
            abi |-> g.ret, abiRequested |-> g.requested,
            sigCalled |-> FALSE, sigs |-> <<>>, sigRequested |-> FALSE]
    ELSE
  With(registryStep(g.ret, target, callData), LAMBDA r :
    IF r.returned
      THEN [threw |-> FALSE, call |-> r.call, abiCache |-> g.cache, sigCache |-> sigC,
            abi |-> g.ret, abiRequested |-> g.requested,
            sigCalled |-> FALSE, sigs |-> <<>>, sigRequested |-> FALSE]
    ELSE
  With(lookupSelector(sigC, selector, dirKind), LAMBDA l :
    IF l.threw
      THEN [threw |-> TRUE, call |-> NoCall, abiCache |-> g.cache, sigCache |-> l.cache,
            abi |-> g.ret, abiRequested |-> g.requested,
            sigCalled |-> TRUE, sigs |-> l.ret, sigRequested |-> l.requested]
    ELSE [threw |-> FALSE, call |-> directoryStep(l.ret, target, callData, selector),
          abiCache |-> g.cache, sigCache |-> l.cache,
          abi |-> g.ret, abiRequested |-> g.requested,
          sigCalled |-> TRUE, sigs |-> l.ret, sigRequested |-> l.requested])))

(***************************************************************************)
(* Inputs                                                                  *)
(***************************************************************************)
\* the addresses callers pass: AddrA in checksum case, AddrB in lower case
TargetA == <<"0", "x", "A", "1">>
Targets == {TargetA, AddrB}

\* transfer(0xb2, 2)
CdTransfer == SelTransfer \o <<"b", "2", "0", "2">>
\* the transfer selector with one word only: decodes against no candidate
CdTransferCut == SelTransfer \o <<"b", "2">>
\* balanceOf(0xa1, 5), the second overload
CdBalanceOf2 == SelBalanceOf2 \o <<"a", "1", "0", "5">>
\* pause()
CdPause == SelPause
\* a selector nobody lists
CdUnknown == SelDeadBeef \o <<"0", "7">>
\* two bytes, shorter than a selector
CdShort == <<"0", "x", "a", "9", "0", "5">>

\* the call data of CdUnknown as a caller may spell it: capital hex digits
CdUnknownUpper == <<"0", "x", "D", "E", "A", "D", "B", "E", "E", "F", "0", "7">>

CallDatas ==
  {CdTransfer, CdTransferCut, CdBalanceOf2, CdPause, CdUnknown, CdUnknownUpper, CdShort}

\* selectors handed to lookupSelector directly
SelectorInputs ==
  {SelTransfer,
   <<"A", "9", "0", "5", "9", "C", "B", "B">>,
   <<"0", "X", "a", "9", "0", "5", "9", "c", "B", "B">>,
   SelDeadBeef,
   <<"d", "e", "a", "d", "b", "e", "e", "f">>}

(***************************************************************************)
(* State                                                                   *)
(***************************************************************************)
NoLast ==
  [op |-> "none", target |-> <<>>, data |-> <<>>, threw |-> FALSE, call |-> NoCall,
   calls |-> <<>>, abi |-> NullAbi, abiRequested |-> FALSE,
   sigCalled |-> FALSE, sigs |-> <<>>, sigRequested |-> FALSE,
   name |-> "", nameRequested |-> FALSE, answer |-> "none"]

\* resolving: the calls whose decodeCall has started and not returned; asked:
\* the calls on whose behalf a gateway request has been sent
IdleSession ==
  [pc |-> "idle", data |-> <<>>, calls |-> <<>>, decodedCalls |-> <<>>,
   resolving |-> {}, asked |-> {}]

\* the two values of minRequestInterval, milliseconds
ShortInterval == 250
LongInterval == 1000

\* the clock moves in steps of TickMs; at most MaxTicks steps are followed
TickMs == ShortInterval
MaxTicks == 5

\* apiKey when neither config.apiKey nor ETHERSCAN_API_KEY is set
NoKey == "undefined"
\* a value is truthy unless it is undefined or the empty string
Truthy(v) == v \notin {NoKey, ""}

\* this.minRequestInterval = this.apiKey ? 250 : 1000
intervalFor(key) == IF Truthy(key) THEN ShortInterval ELSE LongInterval

\* the callers of one EtherscanClient
Callers == {"c1", "c2"}

\* ContractInfo as getContractInfo returns it; implementation and
\* implementationName are <<>> and "" where the code leaves them undefined
NoInfo ==
  [name |-> "", address |-> <<>>, isVerified |-> FALSE, isProxy |-> FALSE,
   implementation |-> <<>>, implementationName |-> ""]

\* a caller without a lookup in progress.  After a lookup: what it returned
\* (abi, name or info), whether it threw, its outbound requests, the answer
\* to the last of them, whether its key had a value in the cache when it
\* started (cached), whether it was served by the cache (hit) and whether it
\* wrote a cache key that had a value (overwrote)
IdleTask ==
  [pc |-> "idle", op |-> "none", stage |-> "none", address |-> <<>>, wake |-> 0,
   abi |-> NullAbi, name |-> "", info |-> NoInfo, threw |-> FALSE,
   requests |-> 0, overwrote |-> FALSE, cached |-> FALSE, hit |-> FALSE,
   answer |-> "none"]

\* no outbound request so far
NoWire == [count |-> 0, lastAt |-> 0, minGap |-> LongInterval]

\* new EtherscanClient({apiKey: key}): the clock reads far more than
\* minRequestInterval, so that the first request never waits
Constructed(key) ==
  /\ abiCache = EmptyMap
  /\ sigCache = EmptyMap
  /\ last = NoLast
  /\ session = IdleSession
  /\ nameCache = EmptyMap
  /\ apiKey = key
  /\ minRequestInterval = intervalFor(key)
  /\ lastRequestTime = 0
  /\ now = LongInterval
  /\ tasks = [c \in Callers |-> IdleTask]
  /\ wire = NoWire

\* new MulticallDecoder(): no etherscanApiKey, ETHERSCAN_API_KEY not set
Init == Constructed(NoKey)

(***************************************************************************)
(* Operations of one decoder instance and its two gateways                 *)
(***************************************************************************)
\* the answers the registry can give to decodeCall(target, callData): every
\* kind when getContractAbi sends a request, none to choose from otherwise
RegistryAnswers(target) ==
  IF getContractAbi(abiCache, target, "error").requested THEN RegistryKinds
  ELSE {"error"}

\* likewise for the directory, once the registry has answered regKind
DirectoryAnswers(target, callData, regKind) ==
  IF decodeCall(abiCache, sigCache, target, callData, regKind, "error").sigRequested
    THEN DirectoryKinds
  ELSE {"error"}

DecodeCall ==
  \E target \in Targets, callData \in CallDatas :
    \E regKind \in RegistryAnswers(target) :
      \E dirKind \in DirectoryAnswers(target, callData, regKind) :
        \E out \in {decodeCall(abiCache, sigCache, target, callData, regKind, dirKind)} :
           /\ abiCache' = out.abiCache
           /\ sigCache' = out.sigCache
           /\ last' = [NoLast EXCEPT !.op = "decodeCall", !.target = target,
                         !.data = callData, !.threw = out.threw, !.call = out.call,
                         !.abi = out.abi, !.abiRequested = out.abiRequested,
                         !.sigCalled = out.sigCalled, !.sigs = out.sigs,
                         !.sigRequested = out.sigRequested]
           /\ UNCHANGED <<session, clientVars>>

LookupSelector ==
  \E selector \in SelectorInputs, dirKind \in DirectoryKinds :
    \E out \in {lookupSelector(sigCache, selector, dirKind)} :
       /\ sigCache' = out.cache
       /\ last' = [NoLast EXCEPT !.op = "lookupSelector", !.data = selector,
                     !.threw = out.threw, !.sigCalled = TRUE, !.sigs = out.ret,
                     !.sigRequested = out.requested, !.answer = dirKind]
       /\ UNCHANGED <<abiCache, session, clientVars>>

GetContractAbi ==
  \E address \in Targets, regKind \in RegistryKinds :
    \E out \in {getContractAbi(abiCache, address, regKind)} :
       /\ abiCache' = out.cache
       /\ last' = [NoLast EXCEPT !.op = "getContractAbi", !.target = address,
                     !.threw = out.threw, !.abi = out.ret,
                     !.abiRequested = out.requested, !.answer = regKind]
       /\ UNCHANGED <<sigCache, session, clientVars>>

\* SignatureDecoder.clearCache and EtherscanClient.clearCache
ClearCache ==
  /\ abiCache' = EmptyMap
  /\ sigCache' = EmptyMap
  /\ nameCache' = EmptyMap
  /\ last' = [NoLast EXCEPT !.op = "clearCache"]
  /\ UNCHANGED <<session, apiKey, minRequestInterval, lastRequestTime, now, tasks, wire>>

\* one decoder instance resolving calls one after another
Next == DecodeCall

Spec == Init /\ [][Next]_vars

(***************************************************************************)
(* Envelopes: the encoder that parseMulticallData is the decoder of        *)
(***************************************************************************)
HexDigit(n) ==
  CASE n = 0 -> "0" [] n = 1 -> "1" [] n = 2 -> "2" [] n = 3 -> "3"
    [] n = 4 -> "4" [] n = 5 -> "5" [] n = 6 -> "6" [] n = 7 -> "7"
    [] n = 8 -> "8" [] n = 9 -> "9" [] n = 10 -> "a" [] n = 11 -> "b"
    [] n = 12 -> "c" [] n = 13 -> "d" [] n = 14 -> "e" [] OTHER -> "f"

EncodeUint(n) == <<HexDigit(n \div 16), HexDigit(n % 16)>>
EncodeBool(b) == IF b THEN EncodeUint(1) ELSE EncodeUint(0)
EncodeAddress(a) == toLowerCase(sliceFrom(a, 2))
EncodeBytes(hex) == EncodeUint((Len(hex) - 2) \div 2) \o toLowerCase(sliceFrom(hex, 2))

RECURSIVE EncodeCalls(_, _, _)
EncodeCalls(withFlag, allowFailure, batch) ==
  IF batch = <<>> THEN <<>>
  ELSE EncodeAddress(Head(batch).target)
       \o (IF withFlag THEN EncodeBool(allowFailure) ELSE <<>>)
       \o EncodeBytes(Head(batch).callData)
       \o EncodeCalls(withFlag, allowFailure, Tail(batch))

Shapes == {"aggregate3", "aggregate", "tryAggregate", "tryBlockAndAggregate"}

\* the payload of a call of `shape` on `batch`; flag is allowFailure of every
\* call (aggregate3) or requireSuccess (tryAggregate, tryBlockAndAggregate)
EncodeEnvelope(shape, flag, batch) ==
  CASE shape = "aggregate3" ->
         SelAggregate3 \o EncodeUint(Len(batch)) \o EncodeCalls(TRUE, flag, batch)
    [] shape = "aggregate" ->
         SelAggregate \o EncodeUint(Len(batch)) \o EncodeCalls(FALSE, flag, batch)
    [] shape = "tryAggregate" ->
         SelTryAggregate \o EncodeBool(flag) \o EncodeUint(Len(batch))
           \o EncodeCalls(FALSE, flag, batch)
    [] OTHER ->
         SelTryBlock \o EncodeBool(flag) \o EncodeUint(Len(batch))
           \o EncodeCalls(FALSE, flag, batch)

\* the calls of a batch: targets in checksum case and call data in lower case,
\* as viem renders the values it decodes
TargetB == <<"0", "x", "B", "2">>
EnvelopeCalls ==
  {[target |-> TargetA, callData |-> CdTransfer],
   [target |-> TargetB, callData |-> CdPause]}

RECURSIVE SeqsUpTo(_, _)
SeqsUpTo(S, n) ==
  IF n = 0 THEN {<<>>}
  ELSE SeqsUpTo(S, n - 1)
       \cup {Append(q, x) : q \in {r \in SeqsUpTo(S, n - 1) : Len(r) = n - 1}, x \in S}

Batches == SeqsUpTo(EnvelopeCalls, MaxCalls)

ValidPayloads ==
  {EncodeEnvelope(shape, flag, batch) : shape \in Shapes, flag \in BOOLEAN, batch \in Batches}

\* payloads no shape decodes: a selector of none of the four functions, a
\* payload cut short in its last byte, a requireSuccess word that is no boolean
WithSelector(sel, payload) == sel \o sliceFrom(payload, 10)
CutShort(payload) == SubSeq(payload, 1, Len(payload) - 2)
WithFlagWord(payload, w) == slice(payload, 0, 10) \o w \o sliceFrom(payload, 12)

UnrecognizedPayloads ==
  {WithSelector(SelTransfer, p) : p \in ValidPayloads}
  \cup {CutShort(p) : p \in ValidPayloads}
  \cup {WithFlagWord(EncodeEnvelope(shape, TRUE, batch), <<"0", "2">>) :
          shape \in {"tryAggregate", "tryBlockAndAggregate"}, batch \in Batches}
  \cup {<<>>, <<"0", "x">>, CdShort}

\* a payload with the body of one shape under the selector of another
CrossedPayloads ==
  {WithSelector(SelAggregate, EncodeEnvelope("aggregate3", flag, batch)) :
     flag \in BOOLEAN, batch \in Batches}

Payloads == ValidPayloads \cup UnrecognizedPayloads \cup CrossedPayloads

ParseMulticallData ==
  \E data \in Payloads :
    \E out \in {parseMulticallData(data)} :
       /\ last' = [NoLast EXCEPT !.op = "parseMulticallData", !.data = data,
                     !.threw = out.threw, !.calls = out.calls]
       /\ UNCHANGED <<abiCache, sigCache, session, clientVars>>

NextDetect == ParseMulticallData

SpecDetect == Init /\ [][NextDetect]_vars

(***************************************************************************)
(* MulticallDecoder.decodeMulticall                                        *)
(***************************************************************************)
\* the payloads of the sessions: the two layouts of the arguments (calls
\* first, calls after a flag), and one payload no shape decodes
SessionShapes == {"aggregate3", "tryAggregate"}
SessionPayloads ==
  {EncodeEnvelope(shape, TRUE, batch) : shape \in SessionShapes, batch \in Batches}
  \cup {CutShort(EncodeEnvelope("aggregate3", TRUE, <<>>))}

\* const calls = this.parseMulticallData(data); a throw rejects the promise;
\* without calls the loop is skipped and decodedCalls is returned
StartDecodeMulticall ==
  /\ session.pc # "running"
  /\ \E data \in SessionPayloads :
       \E parsed \in {parseMulticallData(data)} :
          session' =
            [pc |-> IF parsed.threw THEN "failed"
                    ELSE IF parsed.calls = <<>> THEN "done" ELSE "running",
             data |-> data, calls |-> parsed.calls, decodedCalls |-> <<>>,
             resolving |-> {}, asked |-> {}]
  /\ UNCHANGED <<abiCache, sigCache, last, clientVars>>

\* one turn of the loop: await this.decodeCall(call.target, call.callData),
\* decodedCalls.push(decoded), and the return after the last call
ResolveNextCall ==
  /\ session.pc = "running"
  /\ LET call == session.calls[Len(session.decodedCalls) + 1]
     IN \E regKind \in RegistryAnswers(call.target) :
          \E dirKind \in DirectoryAnswers(call.target, call.callData, regKind) :
            \E out \in {decodeCall(abiCache, sigCache, call.target, call.callData,
                                   regKind, dirKind)} :
               /\ abiCache' = out.abiCache
               /\ sigCache' = out.sigCache
               /\ session' =
                    IF out.threw THEN [session EXCEPT !.pc = "failed"]
                    ELSE [session EXCEPT
                            !.decodedCalls = Append(@, out.call),
                            !.pc = IF Len(session.decodedCalls) + 1 = Len(session.calls)
                                   THEN "done" ELSE "running"]
  /\ UNCHANGED <<last, clientVars>>

NextSession == StartDecodeMulticall \/ ResolveNextCall

SpecSession == Init /\ [][NextSession]_vars

\* faulty variant of nextCalls: calls.map(call => this.decodeCall(...)), every
\* call is started without awaiting the one before
nextCallsAllAtOnce(s) ==
  {i \in 1..Len(s.calls) : i > Len(s.decodedCalls) /\ i \notin s.resolving}

\* for (const call of calls) { const decoded = await this.decodeCall(...) }:
\* the calls the loop may start now, none while a decodeCall is awaited
nextCalls(s) ==
  IF s.resolving = {} /\ Len(s.decodedCalls) < Len(s.calls)
    THEN {Len(s.decodedCalls) + 1}
  ELSE {}

\* the loop calls decodeCall, which runs to its first await: the registry
\* request leaves unless the ABI is cached
BeginResolve ==
  /\ session.pc = "running"
  /\ \E i \in nextCalls(session) :
       \E g \in {getContractAbi(abiCache, session.calls[i].target, "error")} :
         session' = [session EXCEPT
                       !.resolving = @ \cup {i},
                       !.asked = IF g.requested THEN @ \cup {i} ELSE @]
  /\ UNCHANGED <<abiCache, sigCache, last, clientVars>>

\* the decodeCall in progress gets its answers and returns;
\* decodedCalls.push(decoded), and the return after the last call
FinishResolve ==
  /\ session.pc = "running"
  /\ \E i \in session.resolving :
       LET call == session.calls[i]
       IN \E regKind \in RegistryAnswers(call.target) :
            \E dirKind \in DirectoryAnswers(call.target, call.callData, regKind) :
              \E out \in {decodeCall(abiCache, sigCache, call.target, call.callData,
                                     regKind, dirKind)} :
                 /\ abiCache' = out.abiCache
                 /\ sigCache' = out.sigCache
                 /\ session' =
                      IF out.threw
                        THEN [session EXCEPT !.pc = "failed", !.resolving = @ \ {i}]
                      ELSE [session EXCEPT
                              !.decodedCalls = Append(@, out.call),
                              !.resolving = @ \ {i},
                              !.asked = IF out.abiRequested \/ out.sigRequested
                                        THEN @ \cup {i} ELSE @,
                              !.pc = IF Len(session.decodedCalls) + 1 = Len(session.calls)
                                     THEN "done" ELSE "running"]
  /\ UNCHANGED <<last, clientVars>>

\* decodeMulticall with the awaits of its loop
NextLoop == StartDecodeMulticall \/ BeginResolve \/ FinishResolve

SpecLoop == Init /\ [][NextLoop]_vars

(***************************************************************************)
(* Claims                                                                  *)
(***************************************************************************)
Parsed == last.op = "parseMulticallData"
Resolved == last.op = "decodeCall"

\* the first four bytes of call data, 0x-prefixed, and the bytes after them
SelectorOf(callData) == SubSeq(callData, 1, Min(10, Len(callData)))
AfterSelector(callData) == SubSeq(callData, 11, Len(callData))

\* C1: for each of the four envelope shapes and every validly encoded payload
\* of that shape, parseMulticallData returns as many calls as the batch has,
\* the i-th being the (target, callData) pair of the i-th encoded call and
\* nothing else (allowFailure and requireSuccess are dropped).
C1_DetectReturnsEncodedCalls ==
  \A shape \in Shapes, flag \in BOOLEAN, batch \in Batches :
    (Parsed /\ last.data = EncodeEnvelope(shape, flag, batch))
      => /\ ~last.threw
         /\ Len(last.calls) = Len(batch)
         /\ \A i \in 1..Len(batch) : last.calls[i] = batch[i]

\* a tryBlockAndAggregate payload of two different calls has been parsed
C1_Witness ==
  /\ Parsed
  /\ \E batch \in Batches :
       /\ Len(batch) = 2
       /\ batch[1] # batch[2]
       /\ last.data = EncodeEnvelope("tryBlockAndAggregate", TRUE, batch)
       /\ last.calls = batch

\* C2: parseMulticallData applied to a payload that decodes against none of
\* the four shapes fails with the unknown-format error and returns no calls.
C2_UnrecognizedEnvelopeFails ==
  (Parsed /\ last.data \in UnrecognizedPayloads) => (last.threw /\ last.calls = <<>>)

\* a payload with the aggregate3 selector and a body cut short was rejected
C2_Witness ==
  /\ Parsed
  /\ last.threw
  /\ SelectorOf(last.data) = SelAggregate3
  /\ \E p \in ValidPayloads : Len(p) > 12 /\ last.data = CutShort(p)

\* C3: decodeCall never fails: whatever the two gateways answer, it returns a
\* DecodedCall for the target and call data it was given.
C3_DecodeCallNeverFails ==
  Resolved => /\ ~last.threw
              /\ last.call.target = last.target
              /\ last.call.rawCallData = last.data
              /\ last.call.functionName # <<>>

\* decodeCall returned although the registry gave an interface that is no
\* array and the directory lookup gave nothing
C3_Witness ==
  /\ Resolved
  /\ last.abi.kind = "object"
  /\ last.sigRequested
  /\ last.sigs = <<>>
  /\ last.call.functionName = <<"unknown">>

\* C4: when the registry returns an interface and callData decodes against a
\* function of it, decodeCall returns that function's name, the decoded values
\* and the signature built from the parameter types of the very function whose
\* selector matched, also when several functions share the name.
C4_SignatureOfMatchedFunction ==
  (Resolved /\ last.abi.kind = "array" /\ decodeFunctionData(last.abi, last.data).ok)
    => LET matched == last.abi.items[FindBySelector(last.abi.items, SelectorOf(last.data))]
           decoded == decodeFunctionData(last.abi, last.data)
       IN /\ last.call.functionName = matched.name
          /\ last.call.functionSignature = formatSignature(matched.name, matched.inputs)
          /\ decoded.hasArgs => last.call.args = decoded.args

\* the index of the first candidate whose trial decode succeeds, 0 if none
FirstDecodable(signatures, callData) ==
  LET hits == {i \in 1..Len(signatures) : tryDecode(signatures[i], callData).ok}
  IN IF hits = {} THEN 0 ELSE CHOOSE i \in hits : \A j \in hits : i <= j

\* C5: when the registry step produces no result and the directory returns
\* candidates of which one decodes, decodeCall returns the name and signature
\* of the first candidate that decodes, with the values of that decode.
C5_FirstDecodableCandidate ==
  (Resolved /\ last.sigCalled /\ FirstDecodable(last.sigs, last.data) # 0)
    => LET c == last.sigs[FirstDecodable(last.sigs, last.data)]
           decoded == tryDecode(c, last.data)
       IN /\ last.call.functionName = c.name
          /\ last.call.functionSignature = c.signature
          /\ last.call.args = (IF decoded.hasArgs THEN decoded.args ELSE <<>>)

\* the third candidate was returned: the first two did not decode and the
\* fourth would have decoded as well
C5_Witness ==
  /\ Resolved
  /\ last.sigCalled
  /\ Len(last.sigs) = 4
  /\ FirstDecodable(last.sigs, last.data) = 3
  /\ tryDecode(last.sigs[4], last.data).ok
  /\ last.call.functionSignature = TransferSig

\* C6: when the registry step produces no result and the directory returns no
\* candidate (also when its lookup failed), decodeCall returns "unknown", the
\* selector of callData and, as the one argument, callData without its first
\* four bytes.
C6_UnknownFunction ==
  (Resolved /\ last.sigCalled /\ last.sigs = <<>>)
    => /\ last.call.functionName = <<"unknown">>
       /\ last.call.functionSignature = SelectorOf(last.data)
       /\ last.call.args = <<AfterSelector(last.data)>>

\* unknown was returned for a selector the directory lists, after a lookup
\* that failed and left no cache entry
C6_Witness ==
  /\ Resolved
  /\ last.sigRequested
  /\ last.sigs = <<>>
  /\ last.data = CdTransfer
  /\ SelTransfer \notin DOMAIN sigCache
  /\ last.call.functionName = <<"unknown">>
  /\ last.call.args = << <<"b", "2", "0", "2">> >>

\* C7: when the registry step produces no result and the directory returns
\* candidates none of which decodes, decodeCall returns the name and signature
\* of the first candidate received, with callData without its selector as the
\* one argument.
C7_FirstCandidateGuess ==
  (Resolved /\ last.sigCalled /\ Len(last.sigs) >= 1
     /\ FirstDecodable(last.sigs, last.data) = 0)
    => /\ last.call.functionName = last.sigs[1].name
       /\ last.call.functionSignature = last.sigs[1].signature
       /\ last.call.args = <<AfterSelector(last.data)>>

\* the first of four candidates was returned for call data none of them decodes
C7_Witness ==
  /\ Resolved
  /\ last.sigCalled
  /\ Len(last.sigs) = 4
  /\ FirstDecodable(last.sigs, last.data) = 0
  /\ last.call.functionSignature = JoinTgSig
  /\ last.call.args = << <<"b", "2">> >>

\* C8: for every payload parseMulticallData accepts with n calls, whatever the
\* gateways answer for each call, decodeMulticall completes with n DecodedCalls,
\* the i-th for the target and call data of the i-th call; a gateway failure
\* neither aborts the batch nor removes a result.
C8_BatchCompletesInOrder ==
  \A shape \in SessionShapes, batch \in Batches :
    session.data = EncodeEnvelope(shape, TRUE, batch)
      => /\ session.pc # "failed"
         /\ Len(session.decodedCalls) <= Len(batch)
         /\ session.pc = "done" => Len(session.decodedCalls) = Len(batch)
         /\ \A i \in 1..Len(session.decodedCalls) :
              /\ session.decodedCalls[i].target = batch[i].target
              /\ session.decodedCalls[i].rawCallData = batch[i].callData

\* a batch of two different calls completed although both lookups of its
\* first call failed (the registry and the directory know transfer, the call
\* ended unknown and nothing was cached); the second call is resolved
C8_Witness ==
  /\ session.pc = "done"
  /\ Len(session.decodedCalls) = 2
  /\ session.calls[1] = [target |-> TargetA, callData |-> CdTransfer]
  /\ session.calls[2] = [target |-> TargetB, callData |-> CdPause]
  /\ session.decodedCalls[1].functionName = <<"unknown">>
  /\ AddrA \notin DOMAIN abiCache
  /\ SelTransfer \notin DOMAIN sigCache
  /\ session.decodedCalls[2].functionName = <<"pause">>

\* the cache keys decodeCall(target, callData) reads
AbiKey(target) == toLowerCase(target)
SigKey(callData) == toLowerCase(SelectorOf(callData))

SameCallAgain ==
  /\ Resolved
  /\ last'.op = "decodeCall"
  /\ last'.target = last.target
  /\ last'.data = last.data

\* C9 as claimed: a second decodeCall with the same target and call data
\* returns the same DecodedCall and sends no request, whatever the first
\* outcome was.
C9_IdempotentWhateverTheOutcome ==
  [][SameCallAgain
       => /\ last'.call = last.call
          /\ ~last'.abiRequested
          /\ ~last'.sigRequested]_vars

\* C9 amended: a second decodeCall with the same target and call data returns
\* the same DecodedCall and sends no request, provided every lookup of the
\* first call ended with a cache entry: the registry returned an interface
\* and the directory, if consulted, answered with a results list.
C9_IdempotentOnPopulatedCache ==
  [][(/\ SameCallAgain
      /\ AbiKey(last.target) \in DOMAIN abiCache
      /\ last.sigCalled => SigKey(last.data) \in DOMAIN sigCache)
       => /\ last'.call = last.call
          /\ ~last'.abiRequested
          /\ ~last'.sigRequested
          /\ abiCache' = abiCache
          /\ sigCache' = sigCache]_vars

\* a decodeCall went through the registry and the directory and was served
\* by the two caches alone
C9_Witness ==
  /\ Resolved
  /\ last.sigCalled
  /\ last.sigs # <<>>
  /\ ~last.abiRequested
  /\ ~last.sigRequested

\* the hex digits of a selector, in lower case, without a 0x or 0X prefix
SelectorDigits(selector) ==
  LET low == [i \in 1..Len(selector) |-> ToLowerChar(selector[i])]
  IN IF Len(low) >= 2 /\ low[1] = "0" /\ low[2] = "x" THEN SubSeq(low, 3, Len(low))
     ELSE low

\* C10: two lookups whose selectors differ only in letter case or in the 0x
\* prefix use one cache entry: after the first has succeeded, the second
\* returns the same candidates without an outbound request.
C10_OneEntryPerSelector ==
  [][(/\ last.op = "lookupSelector"
      /\ \E k \in DOMAIN sigCache : SelectorDigits(k) = SelectorDigits(last.data)
      /\ last'.op = "lookupSelector"
      /\ SelectorDigits(last'.data) = SelectorDigits(last.data))
       => /\ last'.sigs = last.sigs
          /\ ~last'.sigRequested
          /\ sigCache' = sigCache]_vars

\* a lookup of A9059CBB, upper case without prefix, was served by the entry 0xa9059cbb
C10_Witness ==
  /\ last.op = "lookupSelector"
  /\ last.data = <<"A", "9", "0", "5", "9", "C", "B", "B">>
  /\ ~last.sigRequested
  /\ Len(last.sigs) = 4
  /\ DOMAIN sigCache = {SelTransfer}

(***************************************************************************)
(* EtherscanClient: getContractName, getSourceCodeInfo, getContractInfo     *)
(***************************************************************************)
\* an entry of the result list of action=getsourcecode.  implIsText is FALSE
\* where the Implementation field holds a value that is no string
SourceEntry(contractName, implementation, implIsText, proxy) ==
  [ContractName |-> contractName, Implementation |-> implementation,
   implIsText |-> implIsText, Proxy |-> proxy]

\* what the registry knows: AddrA is the token, AddrB a proxy in front of it
\* (the implementation address in checksum case), any other address has no
\* verified source
SourceCode(address) ==
  CASE address = AddrA -> SourceEntry("Token", <<>>, TRUE, "0")
    [] address = AddrB -> SourceEntry("Proxy", <<"0", "x", "A", "1">>, TRUE, "1")
    [] OTHER -> SourceEntry("", <<>>, TRUE, "0")

\* the answers to a getsourcecode request: the entry of the address; a
\* failure (timeout, non-2xx); status '0' with a rate-limit message; a body
\* that is no JSON (response.data is a text, status undefined); an entry with
\* an empty ContractName; an entry whose Implementation is a number
SourceKinds == {"ok", "error", "ratelimit", "unparsable", "noname", "oddtypes"}

SourceResponse(kind, address) ==
  CASE kind = "error" -> [failed |-> TRUE, status |-> "undefined", result |-> <<>>]
    [] kind = "ratelimit" -> [failed |-> FALSE, status |-> "0", result |-> <<>>]
    [] kind = "unparsable" -> [failed |-> FALSE, status |-> "undefined", result |-> <<>>]
    [] kind = "noname" ->
         [failed |-> FALSE, status |-> "1",
          result |-> <<SourceEntry("", <<>>, TRUE, "0")>>]
    [] kind = "oddtypes" ->
         [failed |-> FALSE, status |-> "1",
          result |-> <<SourceEntry(SourceCode(address).ContractName, <<"1">>, FALSE, "0")>>]
    [] OTHER -> [failed |-> FALSE, status |-> "1", result |-> <<SourceCode(address)>>]

UnknownContract == "Unknown Contract"

\* faulty variant of getContractName: the name is cached whatever was found
getContractNameCacheAlways(cache, address, kind) ==
  LET normalizedAddress == toLowerCase(address)
      response == SourceResponse(kind, normalizedAddress)
      found == /\ ~response.failed
               /\ response.status = "1"
               /\ Len(response.result) > 0
               /\ response.result[1].ContractName # ""
      name == IF found THEN response.result[1].ContractName ELSE UnknownContract
  IN IF normalizedAddress \in DOMAIN cache
       THEN [ret |-> cache[normalizedAddress], cache |-> cache, requested |-> FALSE,
             threw |-> FALSE]
     ELSE [ret |-> name, cache |-> (normalizedAddress :> name) @@ cache,
           requested |-> TRUE, threw |-> FALSE]

\* faulty variant of getContractName: without the try / catch
getContractNameUncaught(cache, address, kind) ==
  LET normalizedAddress == toLowerCase(address)
      response == SourceResponse(kind, normalizedAddress)
  IN IF normalizedAddress \in DOMAIN cache
       THEN [ret |-> cache[normalizedAddress], cache |-> cache, requested |-> FALSE,
             threw |-> FALSE]
     ELSE IF response.failed
       THEN [ret |-> "", cache |-> cache, requested |-> TRUE, threw |-> TRUE]
     ELSE IF /\ response.status = "1"
             /\ Len(response.result) > 0
             /\ response.result[1].ContractName # ""
       THEN [ret |-> response.result[1].ContractName,
             cache |-> (normalizedAddress :> response.result[1].ContractName) @@ cache,
             requested |-> TRUE, threw |-> FALSE]
     ELSE [ret |-> UnknownContract, cache |-> cache, requested |-> TRUE, threw |-> FALSE]

\* getContractName without its pacing: the cache, the request, the response
getContractName(cache, address, kind) ==
  LET normalizedAddress == toLowerCase(address)
      response == SourceResponse(kind, normalizedAddress)
  IN IF normalizedAddress \in DOMAIN cache
       THEN [ret |-> cache[normalizedAddress], cache |-> cache, requested |-> FALSE,
             threw |-> FALSE]
     ELSE IF response.failed
       THEN [ret |-> UnknownContract, cache |-> cache, requested |-> TRUE,
             threw |-> FALSE]
     ELSE IF /\ response.status = "1"
             /\ Len(response.result) > 0
             /\ response.result[1].ContractName # ""
       THEN [ret |-> response.result[1].ContractName,
             cache |-> (normalizedAddress :> response.result[1].ContractName) @@ cache,
             requested |-> TRUE, threw |-> FALSE]
     ELSE [ret |-> UnknownContract, cache |-> cache, requested |-> TRUE, threw |-> FALSE]

\* getSourceCodeInfo once its request is answered: result[0], or null
getSourceCodeInfo(address, kind) ==
  LET response == SourceResponse(kind, toLowerCase(address))
  IN IF ~response.failed /\ response.status = "1" /\ Len(response.result) > 0
       THEN [isNull |-> FALSE, entry |-> response.result[1]]
     ELSE [isNull |-> TRUE, entry |-> SourceEntry("", <<>>, TRUE, "0")]

\* faulty variant of infoFromSource: the name is cached only for an address
\* that has none
infoFromSourceKeepName(cache, address, sourceInfo) ==
  LET normalizedAddress == toLowerCase(address)
      named == ~sourceInfo.isNull /\ sourceInfo.entry.ContractName # ""
      name == IF named THEN sourceInfo.entry.ContractName ELSE UnknownContract
      hasImpl == ~sourceInfo.isNull /\ sourceInfo.entry.Implementation # <<>>
  IN IF hasImpl /\ ~sourceInfo.entry.implIsText
       THEN [threw |-> TRUE, info |-> NoInfo, cache |-> cache, wrote |-> FALSE]
     ELSE [threw |-> FALSE,
           info |-> [name |-> name, address |-> normalizedAddress,
                     isVerified |-> name # UnknownContract, isProxy |-> hasImpl,
                     implementation |->
                       IF hasImpl THEN toLowerCase(sourceInfo.entry.Implementation)
                       ELSE <<>>,
                     implementationName |-> ""],
           cache |-> IF named /\ normalizedAddress \notin DOMAIN cache
                       THEN (normalizedAddress :> name) @@ cache ELSE cache,
           wrote |-> named /\ normalizedAddress \notin DOMAIN cache]

\* getContractInfo between getSourceCodeInfo and the implementation's name
\* (lines 341-362): name, nameCache.set, the proxy check.  It throws where
\* Implementation is truthy and has no toLowerCase
infoFromSource(cache, address, sourceInfo) ==
  LET normalizedAddress == toLowerCase(address)
      named == ~sourceInfo.isNull /\ sourceInfo.entry.ContractName # ""
      name == IF named THEN sourceInfo.entry.ContractName ELSE UnknownContract
      hasImpl == ~sourceInfo.isNull /\ sourceInfo.entry.Implementation # <<>>
  IN IF hasImpl /\ ~sourceInfo.entry.implIsText
       THEN [threw |-> TRUE, info |-> NoInfo,
             cache |-> IF named THEN (normalizedAddress :> name) @@ cache ELSE cache,
             wrote |-> named]
     ELSE [threw |-> FALSE,
           info |-> [name |-> name, address |-> normalizedAddress,
                     isVerified |-> name # UnknownContract, isProxy |-> hasImpl,
                     implementation |->
                       IF hasImpl THEN toLowerCase(sourceInfo.entry.Implementation)
                       ELSE <<>>,
                     implementationName |-> ""],
           cache |-> IF named THEN (normalizedAddress :> name) @@ cache ELSE cache,
           wrote |-> named]

\* implementationName: the name getContractName returned, undefined ("") for
\* 'Unknown Contract'
withImplementationName(info, name) ==
  [info EXCEPT !.implementationName = IF name = UnknownContract THEN "" ELSE name]

(***************************************************************************)
(* EtherscanClient: lookups in time, with throttle                          *)
(***************************************************************************)
\* the wire after one more outbound request at the present time
Sent ==
  [count |-> Min(2, wire.count + 1), lastAt |-> now,
   minGap |-> IF wire.count = 0 THEN wire.minGap
              ELSE Min(wire.minGap, now - wire.lastAt)]

\* a lookup of address that finds cache as it starts
Began(op, address, cache) ==
  [IdleTask EXCEPT !.op = op, !.address = address,
                   !.cached = toLowerCase(address) \in DOMAIN cache]

\* await this.throttle() and the request after it, for the lookup t of
\* caller c: with less than minRequestInterval since lastRequestTime the
\* caller sleeps for the rest of it; otherwise lastRequestTime is set and the
\* request leaves
throttle(c, t) ==
  IF now - lastRequestTime < minRequestInterval
    THEN /\ tasks' = [tasks EXCEPT ![c] =
                        [t EXCEPT !.pc = "sleeping",
                                  !.wake = now + (minRequestInterval
                                                    - (now - lastRequestTime))]]
         /\ UNCHANGED <<lastRequestTime, wire>>
  ELSE /\ lastRequestTime' = now
       /\ wire' = Sent
       /\ tasks' = [tasks EXCEPT ![c] =
                      [t EXCEPT !.pc = "awaiting", !.requests = @ + 1]]

\* setTimeout fires, no earlier than asked: this.lastRequestTime = Date.now(),
\* and the request leaves
Wake(c) ==
  /\ tasks[c].pc = "sleeping"
  /\ now >= tasks[c].wake
  /\ lastRequestTime' = now
  /\ wire' = Sent
  /\ tasks' = [tasks EXCEPT ![c] = [@ EXCEPT !.pc = "awaiting", !.requests = @ + 1]]
  /\ UNCHANGED <<abiCache, sigCache, last, session, nameCache, apiKey,
                 minRequestInterval, now>>

\* getContractAbi up to its request, which no throttle precedes
StartGetContractAbi(c, address) ==
  /\ tasks[c].pc = "idle"
  /\ \E g \in {getContractAbi(abiCache, address, "error")} :
       IF ~g.requested
         THEN /\ tasks' = [tasks EXCEPT ![c] =
                             [Began("getContractAbi", address, abiCache) EXCEPT
                                !.abi = g.ret, !.hit = TRUE]]
              /\ UNCHANGED wire
       ELSE /\ tasks' = [tasks EXCEPT ![c] =
                           [Began("getContractAbi", address, abiCache) EXCEPT
                              !.pc = "awaiting", !.stage = "abi", !.requests = 1]]
            /\ wire' = Sent
  /\ UNCHANGED <<abiCache, sigCache, last, session, nameCache, apiKey,
                 minRequestInterval, lastRequestTime, now>>

\* the response to getContractAbi's request
RespondAbi(c) ==
  /\ tasks[c].pc = "awaiting"
  /\ tasks[c].stage = "abi"
  /\ \E kind \in RegistryKinds :
       \E g \in {getContractAbi(EmptyMap, tasks[c].address, kind)} :
         LET key == toLowerCase(tasks[c].address)
         IN /\ abiCache' = IF key \in DOMAIN g.cache
                             THEN (key :> g.ret) @@ abiCache ELSE abiCache
            /\ tasks' = [tasks EXCEPT ![c] =
                           [@ EXCEPT !.pc = "idle", !.abi = g.ret, !.threw = g.threw,
                                     !.answer = kind,
                                     !.overwrote = key \in DOMAIN g.cache
                                                     /\ key \in DOMAIN abiCache]]
  /\ UNCHANGED <<sigCache, last, session, nameCache, apiKey, minRequestInterval,
                 lastRequestTime, now, wire>>

\* getContractName up to its request
StartGetContractName(c, address) ==
  /\ tasks[c].pc = "idle"
  /\ \E n \in {getContractName(nameCache, address, "error")} :
       IF ~n.requested
         THEN /\ tasks' = [tasks EXCEPT ![c] =
                             [Began("getContractName", address, nameCache) EXCEPT
                                !.name = n.ret, !.hit = TRUE]]
              /\ UNCHANGED <<lastRequestTime, wire>>
       ELSE throttle(c, [Began("getContractName", address, nameCache) EXCEPT !.stage = "name"])
  /\ UNCHANGED <<abiCache, sigCache, last, session, nameCache, apiKey,
                 minRequestInterval, now>>

\* the response to getContractName's request
RespondName(c) ==
  /\ tasks[c].pc = "awaiting"
  /\ tasks[c].stage = "name"
  /\ \E kind \in SourceKinds :
       \E n \in {getContractName(EmptyMap, tasks[c].address, kind)} :
         LET key == toLowerCase(tasks[c].address)
         IN /\ nameCache' = IF key \in DOMAIN n.cache
                              THEN (key :> n.cache[key]) @@ nameCache ELSE nameCache
            /\ tasks' = [tasks EXCEPT ![c] =
                           [@ EXCEPT !.pc = "idle", !.name = n.ret, !.threw = n.threw,
                                     !.answer = kind,
                                     !.overwrote = key \in DOMAIN n.cache
                                                     /\ key \in DOMAIN nameCache]]
  /\ UNCHANGED <<abiCache, sigCache, last, session, apiKey, minRequestInterval,
                 lastRequestTime, now, wire>>

\* getContractInfo up to the request of getSourceCodeInfo
StartGetContractInfo(c, address) ==
  /\ tasks[c].pc = "idle"
  /\ throttle(c, [Began("getContractInfo", address, nameCache) EXCEPT !.stage = "info"])
  /\ UNCHANGED <<abiCache, sigCache, last, session, nameCache, apiKey,
                 minRequestInterval, now>>

\* the response to getSourceCodeInfo's request and getContractInfo from there
\* to its return or, for a proxy whose implementation has no cached name, to
\* the throttle of getContractName(implementationAddress)
RespondInfo(c) ==
  /\ tasks[c].pc = "awaiting"
  /\ tasks[c].stage = "info"
  /\ \E kind \in SourceKinds :
       \E r \in {infoFromSource(nameCache, tasks[c].address,
                                getSourceCodeInfo(tasks[c].address, kind))} :
         LET t == [tasks[c] EXCEPT
                     !.answer = kind,
                     !.overwrote = r.wrote /\ toLowerCase(tasks[c].address)
                                               \in DOMAIN nameCache]
         IN /\ nameCache' = r.cache
            /\ IF r.threw
                 THEN /\ tasks' = [tasks EXCEPT ![c] =
                                     [t EXCEPT !.pc = "idle", !.threw = TRUE]]
                      /\ UNCHANGED <<lastRequestTime, wire>>
               ELSE IF ~r.info.isProxy
                 THEN /\ tasks' = [tasks EXCEPT ![c] =
                                     [t EXCEPT !.pc = "idle", !.info = r.info]]
                      /\ UNCHANGED <<lastRequestTime, wire>>
               ELSE \E n \in {getContractName(r.cache, r.info.implementation, "error")} :
                      IF ~n.requested
                        THEN /\ tasks' = [tasks EXCEPT ![c] =
                                            [t EXCEPT !.pc = "idle",
                                               !.info = withImplementationName(r.info, n.ret)]]
                             /\ UNCHANGED <<lastRequestTime, wire>>
                      ELSE throttle(c, [t EXCEPT !.stage = "implName", !.info = r.info])
  /\ UNCHANGED <<abiCache, sigCache, last, session, apiKey, minRequestInterval, now>>

\* the response to the request of getContractName(implementationAddress), and
\* the return of getContractInfo
RespondImplName(c) ==
  /\ tasks[c].pc = "awaiting"
  /\ tasks[c].stage = "implName"
  /\ \E kind \in SourceKinds :
       \E n \in {getContractName(EmptyMap, tasks[c].info.implementation, kind)} :
         LET key == tasks[c].info.implementation
         IN /\ nameCache' = IF key \in DOMAIN n.cache
                              THEN (key :> n.cache[key]) @@ nameCache ELSE nameCache
            /\ tasks' = [tasks EXCEPT ![c] =
                           [@ EXCEPT !.pc = "idle", !.threw = n.threw, !.answer = kind,
                                     !.info = withImplementationName(@, n.ret),
                                     !.overwrote = @ \/ (key \in DOMAIN n.cache
                                                           /\ key \in DOMAIN nameCache)]]
  /\ UNCHANGED <<abiCache, sigCache, last, session, apiKey, minRequestInterval,
                 lastRequestTime, now, wire>>

\* Date.now() moves on
TimePasses ==
  /\ now < LongInterval + MaxTicks * TickMs
  /\ now' = now + TickMs
  /\ UNCHANGED <<abiCache, sigCache, last, session, nameCache, apiKey,
                 minRequestInterval, lastRequestTime, tasks, wire>>

\* setApiKey(apiKey): this.apiKey = apiKey
SetApiKey ==
  /\ \E key \in {"K1"} : apiKey' = key
  /\ UNCHANGED <<abiCache, sigCache, last, session, nameCache, minRequestInterval,
                 lastRequestTime, now, tasks, wire>>

\* getContractName from call to return, the wait in throttle left out
GetContractName ==
  \E address \in Targets, kind \in SourceKinds :
    \E out \in {getContractName(nameCache, address, kind)} :
       /\ nameCache' = out.cache
       /\ last' = [NoLast EXCEPT !.op = "getContractName", !.target = address,
                     !.threw = out.threw, !.name = out.ret,
                     !.nameRequested = out.requested, !.answer = kind]
       /\ UNCHANGED <<abiCache, sigCache, session, apiKey, minRequestInterval,
                      lastRequestTime, now, tasks, wire>>

\* the two gateways used on their own, one lookup at a time
NextGateway == LookupSelector \/ GetContractAbi \/ GetContractName \/ ClearCache

SpecGateway == Init /\ [][NextGateway]_vars

\* a client constructed with or without an API key
ConfigKeys == {NoKey, "K1"}
InitClient == \E key \in ConfigKeys : Constructed(key)

\* one caller that awaits each lookup before it starts the next
SeqGetContractAbi == \E address \in Targets : StartGetContractAbi("c1", address)
SeqGetContractName == \E address \in Targets : StartGetContractName("c1", address)
SeqGetContractInfo == \E address \in Targets : StartGetContractInfo("c1", address)
SeqWake == Wake("c1")
SeqRespondAbi == RespondAbi("c1")
SeqRespondName == RespondName("c1")
SeqRespondInfo == RespondInfo("c1")
SeqRespondImplName == RespondImplName("c1")

NextClient ==
  \/ SeqGetContractAbi
  \/ SeqGetContractName
  \/ SeqGetContractInfo
  \/ SeqWake
  \/ SeqRespondAbi
  \/ SeqRespondName
  \/ SeqRespondInfo
  \/ SeqRespondImplName
  \/ TimePasses
  \/ SetApiKey
  \/ ClearCache

SpecClient == InitClient /\ [][NextClient]_vars

\* several callers with throttled lookups in progress at the same time
ConcGetContractName ==
  \E c \in Callers, address \in Targets : StartGetContractName(c, address)
ConcGetContractInfo ==
  \E c \in Callers, address \in Targets : StartGetContractInfo(c, address)
ConcWake == \E c \in Callers : Wake(c)
ConcRespondName == \E c \in Callers : RespondName(c)
ConcRespondInfo == \E c \in Callers : RespondInfo(c)
ConcRespondImplName == \E c \in Callers : RespondImplName(c)

NextConcurrent ==
  \/ ConcGetContractName
  \/ ConcGetContractInfo
  \/ ConcWake
  \/ ConcRespondName
  \/ ConcRespondInfo
  \/ ConcRespondImplName
  \/ TimePasses

SpecConcurrent == Init /\ [][NextConcurrent]_vars

\* C11: for one EtherscanClient used by a sequential caller, any two
\* consecutive outbound requests, whichever lookup issues them, are at least
\* minRequestInterval apart, and every outbound request passes the throttle,
\* which sets lastRequestTime to the time the request leaves.
C11_SequentialRequestsPaced ==
  /\ wire.count >= 2 => wire.minGap >= minRequestInterval
  /\ wire.count >= 1 => lastRequestTime = wire.lastAt

\* C14: gateway failures never propagate: whatever the answer to a request
\* (timeout, non-2xx, rate limit, a payload that cannot be used),
\* getContractAbi returns null, lookupSelector the empty sequence,
\* getContractName and getContractInfo their 'Unknown Contract' defaults, and
\* none of them raises an error to its caller.
C14_GatewayFailuresContained ==
  /\ last.op \in {"lookupSelector", "getContractAbi"} => ~last.threw
  /\ \A c \in Callers :
       (tasks[c].pc = "idle" /\ tasks[c].op # "none") =>
         /\ ~tasks[c].threw
         /\ tasks[c].answer \in {"error", "ratelimit", "unparsable"} =>
              /\ tasks[c].op = "getContractAbi" => tasks[c].abi = NullAbi
              /\ tasks[c].op = "getContractName" => tasks[c].name = UnknownContract
              /\ (tasks[c].op = "getContractInfo" /\ tasks[c].requests = 1) =>
                   tasks[c].info.name = UnknownContract

\* C15: each gateway cache is write-once per key: once a key has a value no
\* operation writes that key again, and a lookup of a cached key is served
\* from the cache without an outbound request.
C15_WriteOncePerKey ==
  \A c \in Callers :
    /\ ~tasks[c].overwrote
    /\ (tasks[c].cached /\ tasks[c].op \in {"getContractAbi", "getContractName"}) =>
         (tasks[c].hit /\ tasks[c].requests = 0)

\* C18: when several callers have throttled lookups (getContractName,
\* getContractInfo) in progress on one EtherscanClient, any two outbound
\* requests of the client are at least minRequestInterval apart, in every
\* interleaving.
C18_ConcurrentRequestsPaced ==
  wire.count >= 2 => minRequestInterval <= wire.minGap

\* C19: after construction and after any sequence of setApiKey calls,
\* minRequestInterval is 250 exactly when an API key is configured and 1000
\* otherwise.
C19_IntervalFollowsCredential ==
  /\ Truthy(apiKey) <=> minRequestInterval = ShortInterval
  /\ ~Truthy(apiKey) <=> minRequestInterval = LongInterval

\* the answers that carry what was asked for: an interface (any JSON value),
\* a results list, a contract name
AbiAnswerSucceeds(kind, key) ==
  kind = "object" \/ (kind = "ok" /\ Registry(key) # NullAbi)
SigAnswerSucceeds(kind) == kind = "ok"
NameAnswerSucceeds(kind, key) ==
  kind \in {"ok", "oddtypes"} /\ SourceCode(key).ContractName # ""

\* C20: a lookup that does not succeed leaves the caches unchanged: a
\* getContractAbi that ends in not-found or error, a lookupSelector that ends
\* in error or in a response without results, a getContractName that finds no
\* name add no entry, so that the next lookup of the key sends a request
\* again (a request is sent exactly when the key has no entry); only a
\* successful answer, an empty results list included, creates an entry, for
\* the key looked up and with the value returned.
C20_FailedLookupLeavesCaches ==
  [][/\ last'.op = "getContractAbi" =>
          LET key == toLowerCase(last'.target)
          IN /\ last'.abiRequested <=> key \notin DOMAIN abiCache
             /\ sigCache' = sigCache /\ nameCache' = nameCache
             /\ IF last'.abiRequested /\ AbiAnswerSucceeds(last'.answer, key)
                  THEN abiCache' = (key :> last'.abi) @@ abiCache
                ELSE abiCache' = abiCache
     /\ last'.op = "lookupSelector" =>
          LET key == normalizeSelector(last'.data)
          IN /\ last'.sigRequested <=> key \notin DOMAIN sigCache
             /\ abiCache' = abiCache /\ nameCache' = nameCache
             /\ IF last'.sigRequested /\ SigAnswerSucceeds(last'.answer)
                  THEN sigCache' = (key :> last'.sigs) @@ sigCache
                ELSE sigCache' = sigCache
     /\ last'.op = "getContractName" =>
          LET key == toLowerCase(last'.target)
          IN /\ last'.nameRequested <=> key \notin DOMAIN nameCache
             /\ abiCache' = abiCache /\ sigCache' = sigCache
             /\ IF last'.nameRequested /\ NameAnswerSucceeds(last'.answer, key)
                  THEN nameCache' = (key :> last'.name) @@ nameCache
                ELSE nameCache' = nameCache]_vars

\* a getContractName that found no name left no entry, in a client whose
\* directory cache holds an empty results list
C20_Witness ==
  /\ last.op = "getContractName"
  /\ last.nameRequested
  /\ last.name = UnknownContract
  /\ toLowerCase(last.target) \notin DOMAIN nameCache
  /\ \E k \in DOMAIN sigCache : sigCache[k] = <<>>

\* C17: within one decodeMulticall, calls are resolved one after another in
\* extraction order: at most one resolution is in progress at any time, it is
\* that of the first call without a DecodedCall, and no gateway request has
\* been sent for a call while a call before it has no DecodedCall.
C17_OneResolutionAtATime ==
  /\ Cardinality(session.resolving) <= 1
  /\ \A i \in session.resolving \cup session.asked :
       /\ i \in 1..Len(session.calls)
       /\ i <= Len(session.decodedCalls) + 1
       /\ i = Len(session.decodedCalls) + 1 => i \in session.resolving

\* the second call of a batch is being resolved, its registry request sent,
\* after the first call got its DecodedCall through a request of its own
C17_Witness ==
  /\ session.pc = "running"
  /\ Len(session.calls) >= 2
  /\ Len(session.decodedCalls) = 1
  /\ session.resolving = {2}
  /\ session.asked = {1, 2}

\* resolution could not decode parameters: the directory was consulted and
\* gave no candidate, or none that decodes
CouldNotDecode == last.sigCalled /\ FirstDecodable(last.sigs, last.data) = 0

\* C12 as claimed: in every DecodedCall returned by decodeCall, args is the
\* empty sequence if and only if resolution could not decode parameters.
C12_ArgsEmptyIffUndecoded ==
  Resolved => ((last.call.args = <<>>) <=> CouldNotDecode)

\* C12 amended: args is never empty because resolution failed: when the
\* function is unknown or every candidate failed to decode, args is the
\* one-element sequence holding callData without its selector; args is empty
\* only when a directory candidate without parameters decoded.
C12_RawDataWhenUndecoded ==
  Resolved =>
    /\ CouldNotDecode => last.call.args = <<AfterSelector(last.data)>>
    /\ last.call.args = <<>> =>
         /\ last.sigCalled
         /\ FirstDecodable(last.sigs, last.data) # 0
         /\ ~tryDecode(last.sigs[FirstDecodable(last.sigs, last.data)], last.data).hasArgs

\* pause() was resolved through the directory and has no argument
C12_Witness ==
  /\ Resolved
  /\ last.sigCalled
  /\ last.call.functionSignature = PauseSig
  /\ last.call.args = <<>>

\* C13: decodeCall applied to callData of fewer than 4 bytes fails: it returns
\* no DecodedCall and makes no selector lookup with a truncated selector.
C13_ShortCallDataRejected ==
  (Resolved /\ Len(last.data) < 10) => (last.threw /\ ~last.sigCalled)

\* C16: the functionSignature of every unresolved DecodedCall (and the
\* selector decodeCall derives) is the first 4 bytes of callData in lowercase
\* 0x-prefixed hex, whatever the letter case of callData.
C16_SelectorLowerCase ==
  (Resolved /\ Len(last.data) >= 10 /\ last.call.functionName = <<"unknown">>)
    => last.call.functionSignature = toLowerCase(SelectorOf(last.data))
====
